---- MODULE Spec2Model ----
(***************************************************************************)
(* symquery: the command-line front end to drsyms (tools/symquery.c).      *)
(*                                                                         *)
(* The model follows main() step by step: the argument scan, the           *)
(* validation, the library initialisation, the dispatch (one handler call  *)
(* per action), the batch reader loop (one iteration per action) and the   *)
(* library teardown.  Strings are sequences of one-character strings, so   *)
(* that _stricmp, strcmp, fgets and sscanf are computed on the text.       *)
(* The drsyms library and dr_file_exists are the environment: every call   *)
(* returns one of the outcomes listed in the *Results sets.                *)
(***************************************************************************)
EXTENDS Integers, Sequences, FiniteSets, TLC

(* ------------------------------ bounds --------------------------------- *)

\* longest argument vector (argv[1..]) of a single-module invocation, alone
\* or after the module option "-e m"
MaxArgs == 3

\* most lines the driving process writes to standard input before the line
\* that ends the session (the sentinel, or closing the pipe)
MaxLines == 2

\* most symbols / lines an enumeration reports through its callback
MaxMatches == 1

(* --------------------------- program constants -------------------------- *)

\* dr_api.h: length of the longest path; sizes line[] and modpath[]
MAXIMUM_PATH == 260

(* ------------------------------- text ---------------------------------- *)

NULL == <<"\\0">>

Lower(c) ==
  CASE c = "A" -> "a" [] c = "B" -> "b" [] c = "C" -> "c" [] c = "D" -> "d"
    [] c = "E" -> "e" [] c = "F" -> "f" [] c = "I" -> "i" [] c = "L" -> "l"
    [] c = "M" -> "m" [] c = "N" -> "n" [] c = "Q" -> "q" [] c = "R" -> "r"
    [] c = "S" -> "s" [] c = "T" -> "t" [] c = "U" -> "u" [] c = "V" -> "v"
    [] c = "X" -> "x" [] OTHER -> c

\* _stricmp(a, b) == 0
stricmp(a, b) ==
  /\ Len(a) = Len(b)
  /\ \A k \in 1..Len(a) : Lower(a[k]) = Lower(b[k])

\* strcmp(a, b) == 0
strcmp(a, b) == a = b

HexVal(c) ==
  CASE c = "0" -> 0 [] c = "1" -> 1 [] c = "2" -> 2 [] c = "3" -> 3
    [] c = "4" -> 4 [] c = "5" -> 5 [] c = "6" -> 6 [] c = "7" -> 7
    [] c = "8" -> 8 [] c = "9" -> 9
    [] Lower(c) = "a" -> 10 [] Lower(c) = "b" -> 11 [] Lower(c) = "c" -> 12
    [] Lower(c) = "d" -> 13 [] Lower(c) = "e" -> 14 [] Lower(c) = "f" -> 15
    [] OTHER -> -1

IsSpace(c) == c \in {" ", "\t", "\n"}

RECURSIVE SkipSpace(_, _)
SkipSpace(s, k) ==
  IF k <= Len(s) /\ IsSpace(s[k]) THEN SkipSpace(s, k + 1) ELSE k

RECURSIVE HexDigits_Decimal(_, _, _, _)
\* HexDigits with the digits weighted as decimal ones
HexDigits_Decimal(s, k, n, v) ==
  IF k <= Len(s) /\ HexVal(s[k]) >= 0
    THEN HexDigits_Decimal(s, k + 1, n + 1, v * 10 + HexVal(s[k]))
    ELSE [n |-> n, v |-> v]

RECURSIVE HexDigits(_, _, _, _)
\* the digits of s from position k on: [n |-> digits read, v |-> value].
\* The arguments of the model have at most two digits, so the value fits
\* the 32 bits of the uint it is stored in.
HexDigits(s, k, n, v) ==
  IF k <= Len(s) /\ HexVal(s[k]) >= 0
    THEN HexDigits(s, k + 1, n + 1, v * 16 + HexVal(s[k]))
    ELSE [n |-> n, v |-> v]

\* the %x conversion applied to s from position k: [ok, v]
ScanHex(s, k) ==
  LET p == SkipSpace(s, k)
      q == IF p + 1 <= Len(s) /\ s[p] = "0" /\ Lower(s[p + 1]) = "x"
              /\ p + 2 <= Len(s) /\ HexVal(s[p + 2]) >= 0
             THEN p + 2 ELSE p
      d == HexDigits(s, q, 0, 0)
  IN  [ok |-> d.n > 0, v |-> d.v]

\* sscanf(arg, "%x", (uint *)&modoffs)
sscanf_x(arg) == ScanHex(arg, 1)

Min(S) == CHOOSE x \in S : \A y \in S : x <= y

\* %<max>[^;] : the characters from position k up to the first ';', at most
\* max of them; the position after the last one read
ScanSet(s, k, max) ==
  LET cap  == Min({Len(s), k + max - 1})
      stop == {j \in k..cap : s[j] = ";"}
  IN  IF stop = {} THEN cap + 1 ELSE Min(stop)

\* sscanf(line, "%260[^;];%x", modpath, (uint *)&modoffs):
\* [n |-> conversions done, modpath, v]
sscanf_line(line) ==
  LET e == ScanSet(line, 1, MAXIMUM_PATH)
      h == ScanHex(line, e + 1)
  IN  IF e = 1 THEN [n |-> 0, modpath |-> <<>>, v |-> 0]
      ELSE IF e > Len(line) \/ line[e] # ";"
        THEN [n |-> 1, modpath |-> SubSeq(line, 1, e - 1), v |-> 0]
      ELSE IF ~h.ok THEN [n |-> 1, modpath |-> SubSeq(line, 1, e - 1), v |-> 0]
      ELSE [n |-> 2, modpath |-> SubSeq(line, 1, e - 1), v |-> h.v]

\* where fgets stops reading s: after a newline, after max characters, or at
\* the end of the stream
LineEnd(s, max) ==
  LET cap == Min({Len(s), max})
      nl  == {j \in 1..cap : s[j] = "\n"}
  IN  IF nl = {} THEN cap ELSE Min(nl)

\* fgets(line, sizeof(line), stdin) on the unread input s, line[] holding
\* MAXIMUM_PATH*2 bytes: [null, line, rest, eof]
fgets(s) ==
  LET e == LineEnd(s, MAXIMUM_PATH * 2 - 1)
      chunk == SubSeq(s, 1, e)
  IN  [null |-> e = 0,
       line |-> chunk,
       rest |-> SubSeq(s, e + 1, Len(s)),
       eof  |-> e = Len(s) /\ e < MAXIMUM_PATH * 2 - 1
                 /\ (e = 0 \/ s[e] # "\n")]

(* ----------------------------- inputs ---------------------------------- *)

opt_e         == <<"-", "e">>
opt_f         == <<"-", "f">>
opt_v         == <<"-", "v">>
opt_a         == <<"-", "a">>
opt_s         == <<"-", "s">>
opt_q         == <<"-", "q">>
opt_lines     == <<"-", "-", "l", "i", "n", "e", "s">>
opt_enum      == <<"-", "-", "e", "n", "u", "m">>
opt_list      == <<"-", "-", "l", "i", "s", "t">>
opt_search    == <<"-", "-", "s", "e", "a", "r", "c", "h">>
opt_searchall == <<"-", "-", "s", "e", "a", "r", "c", "h", "a", "l", "l">>

\* an upper-case spelling of -a, and two values: "m" names a readable module
\* (and is no hex number), "5" is a hex number (and names no file)
opt_A  == <<"-", "A">>
val_m  == <<"m">>
val_5  == <<"5">>

\* the tokens of a single-module command line
Tokens ==
  {opt_e, opt_f, opt_v, opt_a, opt_s, opt_lines, opt_enum, opt_list,
   opt_search, opt_searchall, opt_A, val_m, val_5}

SeqsUpTo(S, n) == UNION {[1..k -> S] : k \in 0..n}

\* every ordering of every subset of S
Orderings(S) ==
  {t \in SeqsUpTo(S, Cardinality(S)) :
     \A j, k \in 1..Len(t) : t[j] = t[k] => j = k}

\* the batch command lines: -q with the output flags, with a single-module
\* mode, and with a module path (readable or not), in every order
BatchArgvs ==
  Orderings({opt_q, opt_f, opt_v}) \cup Orderings({opt_q, opt_lines})
    \cup Orderings({opt_q, opt_e, val_m}) \cup Orderings({opt_q, opt_e, val_5})

\* the argument vectors main is started with (argv[1..argc-1]): up to
\* MaxArgs tokens, alone or after "-e m", and the batch command lines
Argvs ==
  SeqsUpTo(Tokens, MaxArgs)
    \cup {<<opt_e, val_m>> \o t : t \in SeqsUpTo(Tokens, MaxArgs)}
    \cup BatchArgvs

\* the files the process can read (_access(dll, 4) # -1)
ReadableFiles == {val_m}

sentinel == <<";", "e", "x", "i", "t", "\n">>

\* two requests: module a at 0x5, module b at 0x10
reqA == <<"a", ";", "5", "\n">>
reqB == <<"b", ";", "1", "0", "\n">>

\* a line longer than line[]: MAXIMUM_PATH*2 - 1 characters, then ";exit"
LongLine == [k \in 1..(MAXIMUM_PATH * 2 - 1) |-> "a"] \o sentinel

\* the lines the driving process writes: two requests, the sentinel, three
\* malformed lines (no separator, empty module path, over-long), and the
\* sentinel without its newline
StdinLines ==
  {reqA, reqB, sentinel,
   <<"a", "\n">>, <<";", "5", "\n">>, LongLine,
   <<";", "e", "x", "i", "t">>}

(* ------------------------ the drsyms library --------------------------- *)

DRSYM_SUCCESS == "DRSYM_SUCCESS"
DRSYM_ERROR == "DRSYM_ERROR"
DRSYM_ERROR_LINE_NOT_AVAILABLE == "DRSYM_ERROR_LINE_NOT_AVAILABLE"

\* what a lookup can return
LookupResults == {DRSYM_SUCCESS, DRSYM_ERROR_LINE_NOT_AVAILABLE, DRSYM_ERROR}

\* what init, exit, the enumerations and the debug-kind query can return
CallResults == {DRSYM_SUCCESS, DRSYM_ERROR}

(* ------------------------------ state ---------------------------------- *)

VARIABLES
  argv,            \* argv[1..argc-1]
  pc,              \* where main is
  ret,             \* main's return value, -1 while it runs
  i,               \* main's loop index
  dll,             \* module path, NULL when no -e was scanned
  show_func, verbose,
  addr2sym, addr2sym_multi, sym2addr, enumerate, enumerate_all, search,
  searchall, enum_lines,
  modoffs,         \* the 32 bits sscanf stores through (uint *)&modoffs;
                   \* the model does not say what the other bits of a
                   \* wider size_t hold
  stdin,           \* written by the driving process and not yet read
  sent,            \* the lines the driving process has written
  closed,          \* the driving process closed the pipe
  eof,             \* feof(stdin)
  chunks,          \* what fgets returned, in order
  out,             \* the lines printed to stdout, in order
  flushed,         \* how many of them have left the stdout buffer
  calls,           \* the library calls made, in order
  queries          \* the arguments the query loop has taken, in order

opts == <<dll, show_func, verbose, addr2sym, addr2sym_multi, sym2addr,
          enumerate, enumerate_all, search, searchall, enum_lines>>
input == <<stdin, sent, closed, eof, chunks>>
vars == <<argv, pc, ret, i, opts, modoffs, input, out, flushed, calls,
          queries>>

argc == Len(argv) + 1

\* a printed line: its kind, the text and number it carries, a status code
Line(k, s, n, e) == [k |-> k, s |-> s, n |-> n, e |-> e]
Text(k) == Line(k, <<>>, 0, "")

\* a library call: entry point, module, string argument, offset, result
Call(f, mod, arg, offs, res) ==
  [f |-> f, mod |-> mod, arg |-> arg, offs |-> offs, res |-> res]
NoOffs == 0

\* PRINT_USAGE(argv[0])
USAGE == <<Text("usage")>>

(* ------------------------ main: argument scan -------------------------- *)

\* the locals and globals as main starts
Locals0 ==
  [i |-> 1, dll |-> NULL, show_func |-> FALSE, verbose |-> FALSE,
   addr2sym |-> FALSE, addr2sym_multi |-> FALSE, sym2addr |-> FALSE,
   enumerate |-> FALSE, enumerate_all |-> FALSE, search |-> FALSE,
   searchall |-> FALSE, enum_lines |-> FALSE, ret |-> -1, out |-> <<>>]

\* GetFullPathName succeeded and _access(dll, 4) # -1
PathOk(path) == path \in ReadableFiles

\* printf(...); return 1;
Return1(st, lines) == [st EXCEPT !.ret = 1, !.out = lines]

RECURSIVE ScanArgs(_, _)
\* for (i = 1; i < argc; i++) { ... }: the locals when the loop is left, by
\* its condition, by the break at -a/-s, or by a return
ScanArgs(av, st) ==
  LET n == Len(av) + 1
      a == av[st.i]
      next(t) == ScanArgs(av, [t EXCEPT !.i = t.i + 1])
  IN  IF ~(st.i < n) THEN st
      ELSE IF stricmp(a, opt_e) THEN
        IF st.i + 1 >= n THEN Return1(st, USAGE)
        ELSE LET t == [st EXCEPT !.i = st.i + 1, !.dll = av[st.i + 1]]
             IN  IF ~PathOk(t.dll)
                   THEN Return1(t, <<Line("invalid_path", av[t.i], 0, "")>>)
                   ELSE next(t)
      ELSE IF stricmp(a, opt_f) THEN next([st EXCEPT !.show_func = TRUE])
      ELSE IF stricmp(a, opt_v) THEN next([st EXCEPT !.verbose = TRUE])
      ELSE IF stricmp(a, opt_a) \/ stricmp(a, opt_s) THEN
        IF st.i + 1 >= n THEN Return1(st, USAGE)
        ELSE IF stricmp(a, opt_a)
          THEN [st EXCEPT !.addr2sym = TRUE, !.i = st.i + 1]
          ELSE [st EXCEPT !.sym2addr = TRUE, !.i = st.i + 1]
      ELSE IF stricmp(a, opt_lines) THEN next([st EXCEPT !.enum_lines = TRUE])
      ELSE IF stricmp(a, opt_q) THEN next([st EXCEPT !.addr2sym_multi = TRUE])
      ELSE IF stricmp(a, opt_enum) THEN next([st EXCEPT !.enumerate = TRUE])
      ELSE IF stricmp(a, opt_list)
        THEN next([st EXCEPT !.enumerate_all = TRUE])
      ELSE IF stricmp(a, opt_search) THEN next([st EXCEPT !.search = TRUE])
      ELSE IF stricmp(a, opt_searchall)
        THEN next([st EXCEPT !.search = TRUE, !.searchall = TRUE])
      ELSE Return1(st, USAGE)

\* ArgsInvalid without the check of -q against a module path
ArgsInvalid_NoBatchCheck ==
  \/ ~addr2sym_multi /\ dll = NULL
  \/ ~sym2addr /\ ~addr2sym /\ ~addr2sym_multi /\ ~enumerate_all
       /\ ~enum_lines

\* the condition of the if that follows the loop
ArgsInvalid ==
  \/ ~addr2sym_multi /\ dll = NULL
  \/ addr2sym_multi /\ dll # NULL
  \/ ~sym2addr /\ ~addr2sym /\ ~addr2sym_multi /\ ~enumerate_all
       /\ ~enum_lines

\* printf appends to the stdout buffer; stdout is a pipe, so nothing leaves
\* the buffer before fflush or exit
Printf(lines) == out' = out \o lines

\* return from main: exit() flushes stdout
Return(code) ==
  /\ ret' = code
  /\ pc' = "done"

Init ==
  /\ argv \in Argvs
  /\ pc = "scan"
  /\ ret = -1
  /\ i = 1
  /\ dll = NULL
  /\ show_func = FALSE /\ verbose = FALSE
  /\ addr2sym = FALSE /\ addr2sym_multi = FALSE /\ sym2addr = FALSE
  /\ enumerate = FALSE /\ enumerate_all = FALSE /\ search = FALSE
  /\ searchall = FALSE /\ enum_lines = FALSE
  /\ modoffs = 0
  /\ stdin = <<>> /\ sent = <<>> /\ closed = FALSE /\ eof = FALSE
  /\ chunks = <<>>
  /\ out = <<>> /\ flushed = 0
  /\ calls = <<>>
  /\ queries = <<>>

\* main, the option loop
Scan ==
  /\ pc = "scan"
  /\ \E st \in {ScanArgs(argv, Locals0)} :
       /\ i' = st.i
       /\ dll' = st.dll
       /\ show_func' = st.show_func
       /\ verbose' = st.verbose
       /\ addr2sym' = st.addr2sym
       /\ addr2sym_multi' = st.addr2sym_multi
       /\ sym2addr' = st.sym2addr
       /\ enumerate' = st.enumerate
       /\ enumerate_all' = st.enumerate_all
       /\ search' = st.search
       /\ searchall' = st.searchall
       /\ enum_lines' = st.enum_lines
       /\ Printf(st.out)
       /\ IF st.ret = 1
            THEN Return(1) /\ flushed' = Len(out')
            ELSE pc' = "validate" /\ UNCHANGED <<ret, flushed>>
  /\ UNCHANGED <<queries, argv, modoffs, input, calls>>

\* main, the check of the options
Validate ==
  /\ pc = "validate"
  /\ IF ArgsInvalid
       THEN Printf(USAGE) /\ Return(1) /\ flushed' = Len(out')
       ELSE pc' = "init" /\ UNCHANGED <<ret, out, flushed>>
  /\ UNCHANGED <<queries, argv, i, opts, modoffs, input, calls>>

\* LibInit going on to the dispatch whatever drsym_init returns
LibInit_IgnoreResult ==
  /\ pc = "init"
  /\ \E res \in CallResults :
       calls' = calls \o <<Call("dr_standalone_init", <<>>, <<>>, NoOffs, ""),
                            Call("drsym_init", <<>>, <<>>, NoOffs, res)>>
  /\ pc' = "dispatch"
  /\ UNCHANGED <<queries, argv, ret, i, opts, modoffs, input, out, flushed>>

\* dr_standalone_init(); drsym_init(NULL)
LibInit ==
  /\ pc = "init"
  /\ \E res \in CallResults :
       /\ calls' = calls \o <<Call("dr_standalone_init", <<>>, <<>>, NoOffs, ""),
                               Call("drsym_init", <<>>, <<>>, NoOffs, res)>>
       /\ IF res # DRSYM_SUCCESS
            THEN Printf(<<Text("init_error")>>) /\ Return(1)
                 /\ flushed' = Len(out')
            ELSE pc' = "dispatch" /\ UNCHANGED <<ret, out, flushed>>
  /\ UNCHANGED <<queries, argv, i, opts, modoffs, input>>

(* ------------------------------ handlers ------------------------------- *)

\* get_and_print_debug_kind when verbose is set: the call and what it prints
DebugKind(dllpath, res) ==
  [calls |-> IF verbose
               THEN <<Call("drsym_get_module_debug_kind", dllpath, <<>>,
                           NoOffs, res)>>
               ELSE <<>>,
   out   |-> IF verbose /\ res = DRSYM_SUCCESS
               THEN <<Text("debug_kind")>> ELSE <<>>]

\* the results of the debug-kind query that differ for the caller
DebugKindResults == IF verbose THEN CallResults ELSE {DRSYM_SUCCESS}

\* lookup_address_out with the two tests of the failure branch exchanged
lookup_address_out_FuncFirst(dllpath, offs, symres, long) ==
  IF symres = DRSYM_SUCCESS \/ symres = DRSYM_ERROR_LINE_NOT_AVAILABLE
    THEN (IF verbose THEN <<Text("debug_kind")>> ELSE <<>>)
      \o (IF long THEN <<Line("name_too_long", dllpath, offs, "")>>
                  ELSE <<>>)
      \o (IF show_func THEN <<Line("sym+offs", dllpath, offs, "")>>
                       ELSE <<>>)
      \o (IF symres = DRSYM_ERROR_LINE_NOT_AVAILABLE
            THEN <<Text("??:0")>>
            ELSE <<Line("file:line+offs", dllpath, offs, "")>>)
    ELSE IF show_func THEN <<Text("?")>>
    ELSE IF verbose THEN <<Line("lookup_address_error", <<>>, 0, symres)>>
    ELSE <<>>

\* lookup_address_out printing sym.file and sym.line whatever symres is
lookup_address_out_AlwaysLine(dllpath, offs, symres, long) ==
  IF symres = DRSYM_SUCCESS \/ symres = DRSYM_ERROR_LINE_NOT_AVAILABLE
    THEN (IF verbose THEN <<Text("debug_kind")>> ELSE <<>>)
      \o (IF long THEN <<Line("name_too_long", dllpath, offs, "")>>
                  ELSE <<>>)
      \o (IF show_func THEN <<Line("sym+offs", dllpath, offs, "")>>
                       ELSE <<>>)
      \o <<Line("file:line+offs", dllpath, offs, "")>>
    ELSE IF verbose THEN <<Line("lookup_address_error", <<>>, 0, symres)>>
    ELSE IF show_func THEN <<Text("?")>>
    ELSE <<>>

\* what lookup_address prints for the result symres of drsym_lookup_address;
\* long: sym.name_available_size >= sym.name_size
lookup_address_out(dllpath, offs, symres, long) ==
  IF symres = DRSYM_SUCCESS \/ symres = DRSYM_ERROR_LINE_NOT_AVAILABLE
    THEN (IF verbose THEN <<Text("debug_kind")>> ELSE <<>>)
      \o (IF long THEN <<Line("name_too_long", dllpath, offs, "")>>
                  ELSE <<>>)
      \o (IF show_func THEN <<Line("sym+offs", dllpath, offs, "")>>
                       ELSE <<>>)
      \o (IF symres = DRSYM_ERROR_LINE_NOT_AVAILABLE
            THEN <<Text("??:0")>>
            ELSE <<Line("file:line+offs", dllpath, offs, "")>>)
    ELSE IF verbose THEN <<Line("lookup_address_error", <<>>, 0, symres)>>
    ELSE IF show_func THEN <<Text("?")>>
    ELSE <<>>

\* lookup_address(dllpath, modoffs)
lookup_address(dllpath, offs) ==
  \E symres \in LookupResults, long \in BOOLEAN :
    /\ long => symres # DRSYM_ERROR
    /\ calls' = Append(calls, Call("drsym_lookup_address", dllpath, <<>>,
                                   offs, symres))
    /\ Printf(lookup_address_out(dllpath, offs, symres, long))

\* what lookup_symbol prints after the debug kind
lookup_symbol_out(dllpath, sym, symres) ==
  IF symres = DRSYM_SUCCESS \/ symres = DRSYM_ERROR_LINE_NOT_AVAILABLE
    THEN <<Line("+offs", sym, 0, "")>>
    ELSE IF verbose THEN <<Line("lookup_symbol_error", sym, 0, symres)>>
    ELSE <<Text("??")>>

\* lookup_symbol(dllpath, sym)
lookup_symbol(dllpath, sym) ==
  \E dk \in DebugKindResults, symres \in LookupResults :
    /\ calls' = calls \o DebugKind(dllpath, dk).calls
                  \o <<Call("drsym_lookup_symbol", dllpath, sym, NoOffs,
                            symres)>>
    /\ Printf(DebugKind(dllpath, dk).out
                \o lookup_symbol_out(dllpath, sym, symres))

\* enumerate_symbols(dllpath, match, search, searchall); search_cb prints
\* n symbols and always asks for the next one
enumerate_symbols(dllpath, match) ==
  \E dk \in DebugKindResults, symres \in CallResults, n \in 0..MaxMatches :
    /\ calls' = calls \o DebugKind(dllpath, dk).calls
                  \o <<Call(IF search THEN "drsym_search_symbols_ex"
                                      ELSE "drsym_enumerate_symbols_ex",
                            dllpath, match, NoOffs, symres)>>
    /\ Printf(DebugKind(dllpath, dk).out
                \o [k \in 1..n |-> Line("symbol", match, k, "")]
                \o (IF symres # DRSYM_SUCCESS /\ verbose
                      THEN <<Line("enum_error", <<>>, 0, symres)>>
                      ELSE <<>>))

\* enumerate_lines(dllpath); enum_line_cb prints n lines
enumerate_lines(dllpath) ==
  \E dk \in DebugKindResults, symres \in CallResults, n \in 0..MaxMatches :
    /\ calls' = calls \o DebugKind(dllpath, dk).calls
                  \o <<Call("drsym_enumerate_lines", dllpath, <<>>, NoOffs,
                            symres)>>
    /\ Printf(DebugKind(dllpath, dk).out
                \o [k \in 1..n |-> Line("line", dllpath, k, "")]
                \o (IF symres # DRSYM_SUCCESS /\ verbose
                      THEN <<Line("line_enum_error", <<>>, 0, symres)>>
                      ELSE <<>>))

(* --------------------------- main: dispatch ---------------------------- *)

\* if (enum_lines) enumerate_lines(dll);
DispatchLines ==
  /\ pc = "dispatch" /\ ~addr2sym_multi
  /\ enum_lines
  /\ enumerate_lines(dll)
  /\ pc' = "exit"
  /\ UNCHANGED <<queries, argv, ret, i, opts, modoffs, input, flushed>>

\* else if (enumerate_all) enumerate_symbols(dll, NULL, search, searchall);
DispatchList ==
  /\ pc = "dispatch" /\ ~addr2sym_multi
  /\ ~enum_lines /\ enumerate_all
  /\ enumerate_symbols(dll, NULL)
  /\ pc' = "exit"
  /\ UNCHANGED <<queries, argv, ret, i, opts, modoffs, input, flushed>>

\* one iteration of for (; i < argc; i++)
DispatchQuery ==
  /\ pc = "dispatch" /\ ~addr2sym_multi
  /\ ~enum_lines /\ ~enumerate_all
  /\ i < argc
  /\ IF addr2sym
       THEN IF sscanf_x(argv[i]).ok
              THEN /\ modoffs' = sscanf_x(argv[i]).v
                   /\ lookup_address(dll, modoffs')
              ELSE /\ Printf(<<Line("unknown_input", argv[i], 0, "")>>)
                   /\ UNCHANGED <<modoffs, calls>>
       ELSE /\ IF enumerate \/ search
                 THEN enumerate_symbols(dll, argv[i])
                 ELSE lookup_symbol(dll, argv[i])
            /\ UNCHANGED modoffs
  /\ queries' = Append(queries, argv[i])
  /\ i' = i + 1
  /\ UNCHANGED <<argv, pc, ret, opts, input, flushed>>

\* the for loop is left
DispatchEnd ==
  /\ pc = "dispatch" /\ ~addr2sym_multi
  /\ ~enum_lines /\ ~enumerate_all
  /\ ~(i < argc)
  /\ pc' = "exit"
  /\ UNCHANGED <<queries, argv, ret, i, opts, modoffs, input, out, flushed, calls>>

(* ------------------------- main: batch reader -------------------------- *)

\* fgets would block: nothing is unread and the pipe is open
Blocked ==
  /\ pc = "dispatch" /\ addr2sym_multi
  /\ ~eof /\ stdin = <<>> /\ ~closed

\* what the driving process does while fgets waits: it writes a line, or
\* closes the pipe; a line without newline is the last thing it writes
Arrivals ==
  IF ~Blocked THEN {[line |-> <<>>, close |-> FALSE]}
  ELSE {[line |-> l, close |-> l[Len(l)] # "\n"] :
          l \in IF Len(sent) < MaxLines THEN StdinLines ELSE {sentinel}}
         \cup {[line |-> <<>>, close |-> TRUE]}

\* fflush(stdout)
Fflush == flushed' = Len(out')

\* one iteration of while (!feof(stdin)), or leaving the loop
BatchIter ==
  /\ pc = "dispatch" /\ addr2sym_multi
  /\ IF eof
       THEN /\ pc' = "exit"
            /\ UNCHANGED <<modoffs, input, out, flushed, calls>>
       ELSE \E a \in Arrivals :
            LET g  == fgets(stdin \o a.line)
                sc == sscanf_line(g.line)
            IN  /\ sent' = IF a.line = <<>> THEN sent
                                             ELSE Append(sent, a.line)
                /\ closed' = (closed \/ a.close)
                /\ stdin' = g.rest
                /\ eof' = g.eof
                /\ IF g.null \/ strcmp(g.line, sentinel)
                     THEN /\ pc' = "exit"
                          /\ chunks' = IF g.null THEN chunks
                                                 ELSE Append(chunks, g.line)
                          /\ UNCHANGED <<modoffs, out, flushed, calls>>
                     ELSE /\ pc' = pc
                          /\ chunks' = Append(chunks, g.line)
                          /\ IF sc.n = 2
                               THEN /\ modoffs' = sc.v
                                    /\ lookup_address(sc.modpath, modoffs')
                                    /\ Fflush
                               ELSE /\ Printf(IF verbose
                                        THEN <<Line("unknown_input", g.line,
                                                    0, "")>>
                                        ELSE <<>>)
                                    /\ UNCHANGED <<modoffs, flushed, calls>>
  /\ UNCHANGED <<queries, argv, ret, i, opts>>

(* --------------------------- main: teardown ---------------------------- *)

\* drsym_exit(); return 0;
LibExit ==
  /\ pc = "exit"
  /\ \E res \in CallResults :
       /\ calls' = Append(calls, Call("drsym_exit", <<>>, <<>>, NoOffs, res))
       /\ Printf(IF res # DRSYM_SUCCESS THEN <<Text("exit_warning")>>
                                         ELSE <<>>)
  /\ Return(0)
  /\ flushed' = Len(out')
  /\ UNCHANGED <<queries, argv, i, opts, modoffs, input>>

Next ==
  \/ Scan \/ Validate \/ LibInit
  \/ DispatchLines \/ DispatchList \/ DispatchQuery \/ DispatchEnd
  \/ BatchIter
  \/ LibExit

Spec == Init /\ [][Next]_vars

(* ====================== properties of the program ====================== *)

Last(q) == q[Len(q)]

\* a is one of the options names, whatever its case (the names are written
\* in lower case)
IsOpt(a, names) == [k \in 1..Len(a) |-> Lower(a[k])] \in names

ModeOptions == {opt_a, opt_s, opt_q, opt_list, opt_lines}

RECURSIVE OptionPositions(_, _)
\* the positions of av, from k on, that the scan reads as options: -e takes
\* the next argument as its path, and nothing is read past the first -a/-s
OptionPositions(av, k) ==
  IF k > Len(av) THEN {}
  ELSE IF IsOpt(av[k], {opt_e}) THEN {k} \cup OptionPositions(av, k + 2)
  ELSE IF IsOpt(av[k], {opt_a, opt_s}) THEN {k}
  ELSE {k} \cup OptionPositions(av, k + 1)

\* the arguments after the first -a/-s that is read as an option
Positional(av) ==
  LET at == {k \in OptionPositions(av, 1) : IsOpt(av[k], {opt_a, opt_s})}
  IN  IF at = {} THEN <<>>
      ELSE SubSeq(av, (CHOOSE k \in at : TRUE) + 1, Len(av))

\* what the step has printed
Printed == SubSeq(out', Len(out) + 1, Len(out'))

\* the step is a call of lookup_address for which the library returned res
LookedUp(res) ==
  /\ Len(calls') = Len(calls) + 1
  /\ Last(calls').f = "drsym_lookup_address"
  /\ Last(calls').res = res

InitSucceeded ==
  Len(calls) >= 2 /\ calls[2].f = "drsym_init" /\ calls[2].res = DRSYM_SUCCESS

(* ---- C1 ---- *)

\* C1 as stated: an argument vector holding no mode flag, or holding both
\* -q and -e, makes main print the usage text and return 1, and
\* dr_standalone_init and drsym_init are never called.
C1_UsageWhateverThePath ==
  (\/ \A k \in 1..Len(argv) : ~IsOpt(argv[k], ModeOptions)
   \/ /\ \E k \in 1..Len(argv) : IsOpt(argv[k], {opt_q})
      /\ \E k \in 1..Len(argv) : IsOpt(argv[k], {opt_e}))
  => /\ calls = <<>>
     /\ pc = "done" => ret = 1 /\ out = USAGE

\* the positions of argv that the scan reads as options
Scanned == OptionPositions(argv, 1)

\* the paths given to an -e at one of the positions ps which name no
\* readable file
UnreadablePaths(ps) ==
  {argv[k + 1] : k \in {j \in ps : /\ IsOpt(argv[j], {opt_e})
                                   /\ j < Len(argv)
                                   /\ argv[j + 1] \notin ReadableFiles}}

ScansNoMode(ps) == \A k \in ps : ~IsOpt(argv[k], ModeOptions)

ScansBatchAndPath(ps) ==
  /\ \E k \in ps : IsOpt(argv[k], {opt_q})
  /\ \E k \in ps : IsOpt(argv[k], {opt_e})

\* C1, amended: when the options main scans (those up to the first -a/-s,
\* the argument after -e being its path) hold no mode flag, or hold both -q
\* and -e, main returns 1 and never calls dr_standalone_init or drsym_init;
\* it prints the usage text, or, when a path given to -e is not readable,
\* possibly the invalid-path error instead.
C1_RejectedBeforeInit ==
  \A ps \in {Scanned} :
    (ScansNoMode(ps) \/ ScansBatchAndPath(ps))
    => /\ calls = <<>>
       /\ pc \in {"scan", "validate", "done"}
       /\ pc = "done" =>
            /\ ret = 1
            /\ \/ out = USAGE
               \/ \E path \in UnreadablePaths(ps) :
                    out = <<Line("invalid_path", path, 0, "")>>

\* C1 witness: -q and -e <readable module> were both scanned, and the
\* validation printed the usage text and returned 1
C1_Witness ==
  /\ pc = "done" /\ ret = 1 /\ out = USAGE
  /\ ScansBatchAndPath(Scanned) /\ addr2sym_multi /\ dll = val_m
  /\ i = argc

(* ---- C2 ---- *)

\* C2: an argument vector that passes the validation has exactly one mode
\* selected among -a, -s, -q, --list and --lines.
C2_ExactlyOneMode ==
  pc \in {"init", "dispatch", "exit"}
  => Cardinality({m \in {"a", "s", "q", "list", "lines"} :
        \/ m = "a" /\ addr2sym
        \/ m = "s" /\ sym2addr
        \/ m = "q" /\ addr2sym_multi
        \/ m = "list" /\ enumerate_all
        \/ m = "lines" /\ enum_lines}) = 1

(* ---- C3 ---- *)

\* C3: the scan stops at the first -a/-s; the arguments after it change no
\* option and, in a run that completes, are the arguments the query loop has
\* handled, in order.
C3_PositionalHandled ==
  /\ pc # "scan" =>
       \A o \in {"f", "v", "lines", "q", "enum", "list", "search", "all"} :
         (\/ o = "f" /\ show_func
          \/ o = "v" /\ verbose
          \/ o = "lines" /\ enum_lines
          \/ o = "q" /\ addr2sym_multi
          \/ o = "enum" /\ enumerate
          \/ o = "list" /\ enumerate_all
          \/ o = "search" /\ search
          \/ o = "all" /\ searchall)
         => \E k \in OptionPositions(argv, 1) :
              \/ o = "f" /\ IsOpt(argv[k], {opt_f})
              \/ o = "v" /\ IsOpt(argv[k], {opt_v})
              \/ o = "lines" /\ IsOpt(argv[k], {opt_lines})
              \/ o = "q" /\ IsOpt(argv[k], {opt_q})
              \/ o = "enum" /\ IsOpt(argv[k], {opt_enum})
              \/ o = "list" /\ IsOpt(argv[k], {opt_list})
              \/ o = "search" /\ IsOpt(argv[k], {opt_search, opt_searchall})
              \/ o = "all" /\ IsOpt(argv[k], {opt_searchall})
  /\ pc = "done" /\ ret = 0 => queries = Positional(argv)

(* ---- C4 ---- *)

\* C4: whenever the batch reader waits for the next line, everything it has
\* printed has been flushed.
C4_FlushedBeforeRead == Blocked => flushed = Len(out)

(* ---- C5 ---- *)

\* the input is n requests followed by the sentinel
RequestsThenExit ==
  /\ sent # <<>> /\ Last(sent) = sentinel
  /\ \A k \in 1..(Len(sent) - 1) : sent[k] \in {reqA, reqB}

\* the module and the address a request names
Module(l) == IF l = reqA THEN <<"a">> ELSE <<"b">>
Address(l) == IF l = reqA THEN 5 ELSE 16

\* the lines the batch loop printed
ResultLines == SelectSeq(out, LAMBDA l : l.k # "exit_warning")

BatchDone == pc = "done" /\ ret = 0 /\ addr2sym_multi

\* C5 as stated: n requests followed by ;exit produce exactly n result
\* lines, whatever -f, -v and the lookup results are.
C5_OneLinePerRequest ==
  BatchDone /\ RequestsThenExit => Len(ResultLines) = Len(sent) - 1

\* C5, amended: n requests followed by ;exit make n lookups, one per
\* request and in input order, and print one location line (file:line+offs,
\* or ??:0) for each lookup the library resolves, in that order; these are
\* all the result lines, exactly n of them, when neither -f nor -v is set,
\* every lookup is resolved and no function name is too long.
C5_LocationLinePerResolved ==
  BatchDone /\ RequestsThenExit =>
    LET n == Len(sent) - 1
        lookups == SelectSeq(calls, LAMBDA c : c.f = "drsym_lookup_address")
        found == SelectSeq(lookups, LAMBDA c : c.res # DRSYM_ERROR)
        loc == SelectSeq(out,
                 LAMBDA l : l.k \in {"file:line+offs", "??:0"})
    IN  /\ Len(lookups) = n
        /\ \A k \in 1..n : /\ lookups[k].mod = Module(sent[k])
                            /\ lookups[k].offs = Address(sent[k])
        /\ Len(loc) = Len(found)
        /\ \A k \in 1..Len(found) :
             loc[k] = IF found[k].res = DRSYM_ERROR_LINE_NOT_AVAILABLE
                        THEN Text("??:0")
                        ELSE Line("file:line+offs", found[k].mod,
                                  found[k].offs, "")
        /\ (/\ ~show_func /\ ~verbose /\ Len(found) = n
            /\ \A k \in 1..Len(out) : out[k].k # "name_too_long")
           => ResultLines = loc /\ Len(ResultLines) = n

\* C5 witness: a;5, b;10 and ;exit answered by two location lines, the one
\* of a first
C5_Witness ==
  /\ BatchDone /\ sent = <<reqA, reqB, sentinel>>
  /\ ~show_func /\ ~verbose
  /\ ResultLines = <<Line("file:line+offs", <<"a">>, 5, ""),
                     Line("file:line+offs", <<"b">>, 16, "")>>

(* ---- C6 ---- *)

\* C6: the batch loop is left only at the end of the input or after a line
\* equal to ";exit\n" was read, and a line that does not parse costs no
\* lookup and does not end the loop.
C6_LoopEndsAtEofOrSentinel ==
  /\ addr2sym_multi /\ pc \in {"exit", "done"} /\ InitSucceeded
     => \/ closed /\ stdin = <<>>
        \/ sent # <<>> /\ Last(sent) = sentinel
  /\ addr2sym_multi =>
       Len(SelectSeq(calls, LAMBDA c : c.f = "drsym_lookup_address"))
         <= Len(SelectSeq(sent, LAMBDA l : l \in {reqA, reqB}))

(* ---- C7 ---- *)

\* C7 as stated: for a status other than success and line-not-available,
\* lookup_address prints "?" when -f is set, the status code when -v is set,
\* and nothing when neither is.
C7_EachFlagPrints ==
  [][LookedUp(DRSYM_ERROR) =>
       /\ show_func => \E k \in 1..Len(Printed) : Printed[k] = Text("?")
       /\ verbose => \E k \in 1..Len(Printed) :
                        Printed[k].k = "lookup_address_error"
       /\ ~show_func /\ ~verbose => Printed = <<>>]_vars

\* C7, amended: for a status other than success and line-not-available,
\* lookup_address prints the status code line when -v is set, with or
\* without -f; "?" when -f is set and -v is not; nothing when neither is.
C7_VerboseFirst ==
  [][LookedUp(DRSYM_ERROR) =>
       Printed = IF verbose
                   THEN <<Line("lookup_address_error", <<>>, 0, DRSYM_ERROR)>>
                   ELSE IF show_func THEN <<Text("?")>>
                   ELSE <<>>]_vars

\* C7 witness: with -f and -v both set, a failed lookup has printed the
\* status code
C7_Witness ==
  /\ show_func /\ verbose
  /\ calls # <<>> /\ Last(calls).f = "drsym_lookup_address"
  /\ Last(calls).res = DRSYM_ERROR
  /\ out # <<>> /\ Last(out).k = "lookup_address_error"

(* ---- C8 ---- *)

\* C8: when the library resolves the symbol, lookup_address ends its output
\* with the location line, which is ??:0 for line-not-available and
\* file:line+offs for success; with -f the sym+offs line comes right before
\* it, in both cases, and without -f there is none.
C8_NoLineLocation ==
  [][\A res \in {DRSYM_SUCCESS, DRSYM_ERROR_LINE_NOT_AVAILABLE} :
       LookedUp(res) =>
         LET c == Last(calls')
             n == Len(Printed)
             sym == Line("sym+offs", c.mod, c.offs, "")
         IN  /\ n >= 1
             /\ Printed[n] = IF res = DRSYM_ERROR_LINE_NOT_AVAILABLE
                               THEN Text("??:0")
                               ELSE Line("file:line+offs", c.mod, c.offs, "")
             /\ \A k \in 1..(n - 1) :
                  Printed[k].k \notin {"??:0", "file:line+offs"}
             /\ show_func => n >= 2 /\ Printed[n - 1] = sym
             /\ \A k \in 1..n :
                  Printed[k].k = "sym+offs" => show_func /\ k = n - 1]_vars

\* C8 witness: with -f and -v set, a lookup without line information has
\* printed sym+offs and then ??:0
C8_Witness ==
  /\ show_func /\ verbose
  /\ calls # <<>> /\ Last(calls).f = "drsym_lookup_address"
  /\ Last(calls).res = DRSYM_ERROR_LINE_NOT_AVAILABLE
  /\ Len(out) >= 3
  /\ Last(out) = Text("??:0")
  /\ out[Len(out) - 1].k = "sym+offs"

(* ---- C9 ---- *)

\* the lines of the input that come before the sentinel
RECURSIVE BeforeSentinel(_)
BeforeSentinel(ls) ==
  IF ls = <<>> \/ Head(ls) = sentinel THEN <<>>
  ELSE <<Head(ls)>> \o BeforeSentinel(Tail(ls))

\* C9: once the validation and drsym_init have succeeded, main returns 0,
\* whatever the handlers and drsym_exit return, and it has taken every
\* positional argument (every batch line before the sentinel or the end of
\* the input) exactly once, in order.
C9_EveryQueryOnce ==
  pc = "done" /\ InitSucceeded =>
    /\ ret = 0
    /\ IF addr2sym_multi
         THEN SelectSeq(chunks, LAMBDA l : l # sentinel) = BeforeSentinel(sent)
         ELSE queries = Positional(argv)

(* ---- C10 ---- *)

HandlerCalls ==
  {"drsym_lookup_address", "drsym_lookup_symbol", "drsym_search_symbols_ex",
   "drsym_enumerate_symbols_ex", "drsym_enumerate_lines",
   "drsym_get_module_debug_kind"}

CallsOf(f) == {k \in 1..Len(calls) : calls[k].f = f}

\* C10: drsym_init is called at most once and only once the validation has
\* passed; every handler call comes after a successful drsym_init and before
\* drsym_exit; a run whose drsym_init succeeded ends with exactly one
\* drsym_exit, as its last call; a run whose drsym_init failed makes no
\* handler call and no drsym_exit and returns 1.
C10_Lifecycle ==
  /\ Cardinality(CallsOf("drsym_init")) <= 1
  /\ calls # <<>> =>
       /\ CallsOf("drsym_init") = {2}
       /\ pc \notin {"scan", "validate"}
       /\ ~ArgsInvalid
  /\ \A k \in 1..Len(calls) :
       calls[k].f \in HandlerCalls =>
         /\ InitSucceeded /\ k > 2
         /\ \A j \in CallsOf("drsym_exit") : k < j
  /\ Cardinality(CallsOf("drsym_exit")) <= 1
  /\ CallsOf("drsym_exit") # {} => InitSucceeded
  /\ pc = "done" /\ InitSucceeded =>
       CallsOf("drsym_exit") = {Len(calls)}
  /\ calls # <<>> /\ ~InitSucceeded =>
       Len(calls) = 2 /\ pc = "done" /\ ret = 1

\* C10 witness: a run that initialised the library, called a handler, and
\* tore the library down
C10_Witness ==
  /\ pc = "done" /\ ret = 0
  /\ Len(calls) >= 4
  /\ calls[3].f \in HandlerCalls
  /\ Last(calls).f = "drsym_exit"

====
